---------------------------- MODULE Spec2Model ----------------------------
(***************************************************************************)
(* Experiment bucket resolution of discord/experiment.py:                  *)
(* ExperimentRollout, ExperimentPopulation, ExperimentOverride,            *)
(* HoldoutExperiment and GuildExperiment.                                  *)
(*                                                                         *)
(* Strings are sequences of bytes.  A 32-bit hash is the pair              *)
(* <<high 16 bits, low 16 bits>>; a wider natural number is a sequence of  *)
(* base-65536 digits, most significant first.                              *)
(***************************************************************************)
EXTENDS Integers, Sequences, FiniteSets, TLC

VARIABLES experiments, outcome

vars == <<experiments, outcome>>

---------------------------------------------------------------------------
(* Bounds of the model.                                                    *)

\* longest filter list of a drawn population
MaxFilters == 2

\* frames of nested GuildExperiment.bucket_for calls before the interpreter
\* gives up with RecursionError
MaxDepth == 4

---------------------------------------------------------------------------
(* 32-bit arithmetic on <<hi, lo>> pairs of 16-bit halves.                 *)

Half == 256 * 256

RECURSIVE Pow2(_)
Pow2(n) == IF n = 0 THEN 1 ELSE 2 * Pow2(n - 1)

RECURSIVE Xor16(_, _, _)
Xor16(a, b, n) ==
    IF n = 0 THEN 0
    ELSE ((a + b) % 2) + 2 * Xor16(a \div 2, b \div 2, n - 1)

RECURSIVE Or16(_, _, _)
Or16(a, b, n) ==
    IF n = 0 THEN 0
    ELSE (IF (a % 2) + (b % 2) > 0 THEN 1 ELSE 0) + 2 * Or16(a \div 2, b \div 2, n - 1)

Xor32(x, y) == <<Xor16(x[1], y[1], 16), Xor16(x[2], y[2], 16)>>

\* the 32-bit product of two 16-bit numbers
Mul16(x, y) ==
    LET u == x * (y % 256)
        v == x * (y \div 256)
        t == u + (v % 256) * 256
    IN  <<((v \div 256) + (t \div Half)) % Half, t % Half>>

\* x * y mod 2^32
Mul32(x, y) ==
    LET p     == Mul16(x[2], y[2])
        cross == (Mul16(x[1], y[2])[2] + Mul16(x[2], y[1])[2]) % Half
    IN  <<(p[1] + cross) % Half, p[2]>>

\* x + y mod 2^32
Add32(x, y) ==
    LET lo == x[2] + y[2]
    IN  <<(x[1] + y[1] + (lo \div Half)) % Half, lo % Half>>

\* rotate left by r, 0 < r < 16
Rotl32(x, r) ==
    <<Or16((x[1] * Pow2(r)) % Half, x[2] \div Pow2(16 - r), 16),
      Or16((x[2] * Pow2(r)) % Half, x[1] \div Pow2(16 - r), 16)>>

\* logical shift right by r, 0 < r <= 16
Shr32(x, r) ==
    <<x[1] \div Pow2(r),
      Or16((x[1] % Pow2(r)) * Pow2(16 - r), x[2] \div Pow2(r), 16)>>

---------------------------------------------------------------------------
(* utils.murmurhash32(key, signed=False): MurmurHash3, x86, 32 bits, seed 0 *)

MurmurC1 == <<52382, 11601>>     \* 0xcc9e2d51
MurmurC2 == <<7047, 13715>>      \* 0x1b873593
MurmurN  == <<58964, 27492>>     \* 0xe6546b64
MurmurF1 == <<34283, 51819>>     \* 0x85ebca6b
MurmurF2 == <<49842, 44597>>     \* 0xc2b2ae35

MurmurMixK(k) == Mul32(Rotl32(Mul32(k, MurmurC1), 15), MurmurC2)

RECURSIVE MurmurBody(_, _, _)
MurmurBody(key, i, h) ==
    IF i + 3 > Len(key) THEN h
    ELSE LET k  == <<key[i + 3] * 256 + key[i + 2], key[i + 1] * 256 + key[i]>>
             h1 == Rotl32(Xor32(h, MurmurMixK(k)), 13)
         IN  MurmurBody(key, i + 4, Add32(Mul32(h1, <<0, 5>>), MurmurN))

MurmurTail(key, h) ==
    LET n  == Len(key) % 4
        t  == Len(key) - n
        k  == <<IF n >= 3 THEN key[t + 3] ELSE 0,
                (IF n >= 2 THEN key[t + 2] * 256 ELSE 0) + (IF n >= 1 THEN key[t + 1] ELSE 0)>>
    IN  IF n = 0 THEN h ELSE Xor32(h, MurmurMixK(k))

MurmurFmix(h) ==
    LET a == Mul32(Xor32(h, Shr32(h, 16)), MurmurF1)
        b == Mul32(Xor32(a, Shr32(a, 13)), MurmurF2)
    IN  Xor32(b, Shr32(b, 16))

Murmur3(key) ==
    MurmurFmix(Xor32(MurmurTail(key, MurmurBody(key, 1, <<0, 0>>)),
                     <<Len(key) \div Half, Len(key) % Half>>))



---------------------------------------------------------------------------
(* Python values.                                                          *)

\* None where an int is expected (start, member_count, owner_id, _result)
None == -1

\* None where a str is expected (name, vanity_url_code)
NoneStr == <<-1>>

\* bool(x) of an Optional[str]
Truthy(s) == s # NoneStr /\ s # <<>>

\* str(n) of a non-negative int, as UTF-8 bytes
RECURSIVE str(_)
str(n) == IF n < 10 THEN <<48 + n>> ELSE str(n \div 10) \o <<48 + (n % 10)>>

\* f'{name}:{id}'
FormatKey(name, id) == name \o <<58>> \o str(id)

\* n % m of a natural number given by its base-65536 digits
RECURSIVE ModDigits(_, _, _)
ModDigits(digits, m, acc) ==
    IF digits = <<>> THEN acc
    ELSE ModDigits(Tail(digits), m, ((acc % m) * (Half % m) + Head(digits)) % m)

\* what a call did: it returned value, or raised error; reg is the registry
\* it left and evaluated the ExperimentPopulation.bucket_for calls it made
Return(v, reg, evaluated) ==
    [kind |-> "return", value |-> v, error |-> "", reg |-> reg, evaluated |-> evaluated]

Raise(e, reg, evaluated) ==
    [kind |-> "raise", value |-> -2, error |-> e, reg |-> reg, evaluated |-> evaluated]

---------------------------------------------------------------------------
(* The strings and entities of the model.                                  *)

NameA == <<97>>      \* "a"
NameB == <<98>>      \* "b"
NameC == <<99>>      \* "c", the name of no experiment of the registry
KeyK  == <<107>>     \* "k", the key of the hash_range filter

\* a guild: the attributes the filters and the overrides read
Guild(id, owner_id, features, member_count, vanity_url_code) ==
    [id |-> id, owner_id |-> owner_id, features |-> features,
     member_count |-> member_count, vanity_url_code |-> vanity_url_code]

\* ConnectionState.guilds
Guilds ==
    { Guild(42, 7, {"COMMUNITY"}, 50, NoneStr),
      Guild(99, 42, {}, None, <<120>>) }

\* the guilds a population is asked about: every id with every profile
PopGuilds ==
    { Guild(id, None, p[1], p[2], p[3]) :
        id \in {50, 60, 100, 150},
        p \in { <<{}, None, NoneStr>>,
                <<{"COMMUNITY"}, 50, <<120>>>>,
                <<{"PARTNERED"}, 100, <<>>>>,
                <<{}, 150, NoneStr>> } }

\* the strings the model hashes: the names, and f'{name}:{id}' of every
\* name or key and every guild
HashedKeys ==
    {NameA, NameB, NameC, <<>>}
    \cup {FormatKey(n, g.id) : n \in {NameA, NameB, KeyK}, g \in Guilds \cup PopGuilds}
    \cup {FormatKey(NameC, g.id) : g \in Guilds}

\* the digest of every hashed string, computed once
MurmurKnown == [key \in HashedKeys |-> Murmur3(key)] @@ <<>>

\* utils.murmurhash32(key, signed=False)
murmurhash32(key) == MurmurKnown[key]

---------------------------------------------------------------------------
(* ExperimentPopulation.bucket_for                                         *)

\* one filter of the payload: its type and the values of its value pairs;
\* the fields its type does not have are blank
BlankFilter ==
    [type |-> "", features |-> {}, start |-> None, end |-> None, ids |-> {},
     hash_key |-> <<>>, target |-> None, required |-> FALSE]

FeatureFilter(features) == [BlankFilter EXCEPT !.type = "feature", !.features = features]

IdRangeFilter(start, end) ==
    [BlankFilter EXCEPT !.type = "id_range", !.start = start, !.end = end]

MemberCountRangeFilter(start, end) ==
    [BlankFilter EXCEPT !.type = "member_count_range", !.start = start, !.end = end]

IdsFilter(ids) == [BlankFilter EXCEPT !.type = "ids", !.ids = ids]

HubTypeFilter == [BlankFilter EXCEPT !.type = "hub_type"]

HashRangeFilter(hash_key, target) ==
    [BlankFilter EXCEPT !.type = "hash_range", !.hash_key = hash_key, !.target = target]

VanityUrlFilter(required) ==
    [BlankFilter EXCEPT !.type = "vanity_url", !.required = required]

\* a filter of a type ExperimentFilterType does not have
UnknownFilter == [BlankFilter EXCEPT !.type = "unknown"]

\* result += result on <<hi, lo>>, with no modulus: three digits
Doubled(result) ==
    <<(result[1] + result[1] + ((result[2] + result[2]) \div Half)) \div Half,
      (result[1] + result[1] + ((result[2] + result[2]) \div Half)) % Half,
      (result[2] + result[2]) % Half>>

\* a variant of HashRangeTransform whose sum wraps around at 32 bits
HashRangeTransformWrapped(result) ==
    IF result # <<0, 0>> THEN <<Doubled(result)[2], Doubled(result)[3]>> ELSE result

\* the hash_range arithmetic on the digest: doubled when positive, else
\* taken modulo 2^32
HashRangeTransform(result) ==
    IF result # <<0, 0>> THEN Doubled(result) ELSE result

\* result % 10000 of the hash_range filter
HashRangeResult(hash_key, guild) ==
    ModDigits(HashRangeTransform(murmurhash32(FormatKey(hash_key, guild.id))), 10000, 0)

\* a variant of InRange with an exclusive upper end
InRangeExclusive(start, end, x) ==
    IF start # None /\ start <= x /\ x < end THEN TRUE
    ELSE IF x < end THEN TRUE
    ELSE FALSE

\* start is not None and start <= x <= end, elif x <= end
InRange(start, end, x) ==
    IF start # None /\ start <= x /\ x <= end THEN TRUE
    ELSE IF x <= end THEN TRUE
    ELSE FALSE

\* a variant of MemberCountStep that fails a guild of unknown member count
MemberCountStepStrict(filter, guild) ==
    IF guild.member_count = None THEN "return"
    ELSE IF InRange(filter.start, filter.end, guild.member_count)
    THEN "continue" ELSE "return"

\* the member_count_range branch of the filter loop
MemberCountStep(filter, guild) ==
    IF guild.member_count = None THEN "continue"
    ELSE IF InRange(filter.start, filter.end, guild.member_count)
    THEN "continue" ELSE "return"

\* a variant of FilterStep whose feature filter wants every required
\* feature, not one of them
FilterStepAllFeatures(filter, guild) ==
    CASE filter.type = "feature" ->
           IF \A feature \in filter.features : feature \in guild.features
           THEN "continue" ELSE "return"
      [] filter.type = "id_range" ->
           IF InRange(filter.start, filter.end, guild.id)
           THEN "continue" ELSE "return"
      [] filter.type = "member_count_range" -> MemberCountStep(filter, guild)
      [] filter.type = "ids" ->
           IF guild.id \in filter.ids THEN "continue" ELSE "return"
      [] filter.type = "hub_type" -> "continue"
      [] filter.type = "hash_range" ->
           IF HashRangeResult(filter.hash_key, guild) < filter.target
           THEN "continue" ELSE "return"
      [] filter.type = "vanity_url" ->
           IF filter.required # Truthy(guild.vanity_url_code)
           THEN "return" ELSE "continue"
      [] OTHER -> "raise"

\* a variant of FilterStep that goes on past a filter of an unknown type
FilterStepLenient(filter, guild) ==
    CASE filter.type = "feature" ->
           IF \E feature \in filter.features : feature \in guild.features
           THEN "continue" ELSE "return"
      [] filter.type = "id_range" ->
           IF InRange(filter.start, filter.end, guild.id)
           THEN "continue" ELSE "return"
      [] filter.type = "member_count_range" -> MemberCountStep(filter, guild)
      [] filter.type = "ids" ->
           IF guild.id \in filter.ids THEN "continue" ELSE "return"
      [] filter.type = "hash_range" ->
           IF HashRangeResult(filter.hash_key, guild) < filter.target
           THEN "continue" ELSE "return"
      [] filter.type = "vanity_url" ->
           IF filter.required # Truthy(guild.vanity_url_code)
           THEN "return" ELSE "continue"
      [] OTHER -> "continue"

\* the body of the filter loop for one filter: "continue" with the next
\* filter, "return" -1, or "raise" NotImplementedError
FilterStep(filter, guild) ==
    CASE filter.type = "feature" ->
           IF \E feature \in filter.features : feature \in guild.features
           THEN "continue" ELSE "return"
      [] filter.type = "id_range" ->
           IF InRange(filter.start, filter.end, guild.id)
           THEN "continue" ELSE "return"
      [] filter.type = "member_count_range" -> MemberCountStep(filter, guild)
      [] filter.type = "ids" ->
           IF guild.id \in filter.ids THEN "continue" ELSE "return"
      [] filter.type = "hub_type" -> "continue"
      [] filter.type = "hash_range" ->
           IF HashRangeResult(filter.hash_key, guild) < filter.target
           THEN "continue" ELSE "return"
      [] filter.type = "vanity_url" ->
           IF filter.required # Truthy(guild.vanity_url_code)
           THEN "return" ELSE "continue"
      [] OTHER -> "raise"

RECURSIVE FilterLoop(_, _, _)

\* a variant of FilterLoopStep that looks at the filters after a failing one
\* too and raises when one of them is of an unknown type
FilterLoopStepEager(step, filters, i, guild) ==
    IF step = "continue" THEN FilterLoop(filters, i + 1, guild)
    ELSE IF step = "raise" THEN "raise"
    ELSE IF FilterLoop(filters, i + 1, guild) = "raise" THEN "raise"
    ELSE "return"

\* after filter i gave step
FilterLoopStep(step, filters, i, guild) ==
    IF step = "continue" THEN FilterLoop(filters, i + 1, guild) ELSE step

\* the filter loop from filter i on
FilterLoop(filters, i, guild) ==
    IF i > Len(filters) THEN "continue"
    ELSE FilterLoopStep(FilterStep(filters[i], guild), filters, i, guild)

\* a variant of RolloutHas whose ranges exclude their end
RolloutHasExclusive(rollout, item) ==
    \E k \in 1..Len(rollout.ranges) :
        rollout.ranges[k][1] <= item /\ item < rollout.ranges[k][2]

\* start <= item <= end for some range of the rollout
RolloutHas(rollout, item) ==
    \E k \in 1..Len(rollout.ranges) :
        rollout.ranges[k][1] <= item /\ item <= rollout.ranges[k][2]

\* a variant of the rollout loop that gives bucket 0 when there is no
\* rollout at all
RECURSIVE RolloutLoopDefaulted(_, _, _)
RolloutLoopDefaulted(rollouts, i, result) ==
    IF i > Len(rollouts) THEN (IF Len(rollouts) = 0 THEN 0 ELSE -1)
    ELSE IF RolloutHas(rollouts[i], result) THEN rollouts[i].bucket
    ELSE RolloutLoopDefaulted(rollouts, i + 1, result)

\* the rollout loop from rollout i on
RECURSIVE RolloutLoop(_, _, _)
RolloutLoop(rollouts, i, result) ==
    IF i > Len(rollouts) THEN -1
    ELSE IF RolloutHas(rollouts[i], result) THEN rollouts[i].bucket
    ELSE RolloutLoop(rollouts, i + 1, result)

\* a variant of result_for that puts a guild at position 0 when the name is
\* unset
GuildExperiment_result_for_defaulted(reg, h, guild) ==
    IF ~Truthy(reg[h].name) THEN Return(0, reg, <<>>)
    ELSE Return(ModDigits(murmurhash32(FormatKey(reg[h].name, guild.id)), 10000, 0),
                reg, <<>>)

\* GuildExperiment.result_for(guild) of the experiment stored under h
GuildExperiment_result_for(reg, h, guild) ==
    IF ~Truthy(reg[h].name) THEN Raise("ValueError", reg, <<>>)
    ELSE Return(ModDigits(murmurhash32(FormatKey(reg[h].name, guild.id)), 10000, 0),
                reg, <<>>)

\* bucket_for once _result is known (computed) and the filter loop has ended
\* (filtered)
PopulationResult(computed, filtered, population, reg) ==
    IF computed.kind = "raise" THEN computed
    ELSE IF filtered = "raise" THEN Raise("NotImplementedError", reg, <<>>)
    ELSE IF filtered = "return" THEN Return(-1, reg, <<>>)
    ELSE Return(RolloutLoop(population.rollouts, 1, computed.value), reg, <<>>)

\* ExperimentPopulation.bucket_for(guild, _result) of a population of the
\* experiment stored under h
ExperimentPopulation_bucket_for(reg, h, population, guild, result) ==
    PopulationResult(IF result = None THEN GuildExperiment_result_for(reg, h, guild)
                     ELSE Return(result, reg, <<>>),
                     FilterLoop(population.filters, 1, guild), population, reg)

---------------------------------------------------------------------------
(* HoldoutExperiment and GuildExperiment                                   *)

Rollout(bucket, ranges) == [bucket |-> bucket, ranges |-> ranges]

Population(filters, rollouts) == [filters |-> filters, rollouts |-> rollouts]

Override(bucket, ids) == [bucket |-> bucket, ids |-> ids]

\* GuildExperiment.holdout is <<>> (None) or <<Holdout(name, bucket)>>
Holdout(name, bucket) == [name |-> name, bucket |-> bucket]

\* a variant of HoldoutLookup that leaves the dependency's name as it is
HoldoutLookupReadOnly(reg, name, experiment_hash) ==
    [found |-> experiment_hash \in DOMAIN reg,
     hash  |-> experiment_hash,
     reg   |-> reg]

\* a variant of HoldoutLookup whose backfill also counts as a revision
HoldoutLookupRevising(reg, name, experiment_hash) ==
    [found |-> experiment_hash \in DOMAIN reg,
     hash  |-> experiment_hash,
     reg   |-> IF experiment_hash \in DOMAIN reg /\ ~Truthy(reg[experiment_hash].name)
               THEN [reg EXCEPT ![experiment_hash].name = name,
                                ![experiment_hash].revision = @ + 1]
               ELSE reg]

\* guild_experiments.get(experiment_hash) and the backfill: whether the
\* dependency is found, its key, and the registry left
HoldoutLookup(reg, name, experiment_hash) ==
    [found |-> experiment_hash \in DOMAIN reg,
     hash  |-> experiment_hash,
     reg   |-> IF experiment_hash \in DOMAIN reg /\ ~Truthy(reg[experiment_hash].name)
               THEN [reg EXCEPT ![experiment_hash].name = name]
               ELSE reg]

\* HoldoutExperiment.experiment
HoldoutExperiment_experiment(reg, holdout) ==
    HoldoutLookup(reg, holdout.name, murmurhash32(holdout.name))

\* an override-population or population of an experiment, with its place:
\* overrides_formatted[i][j], or populations[i] with j = 0
Entry(list, i, j, population) ==
    [list |-> list, i |-> i, j |-> j, population |-> population]

RECURSIVE FormattedEntries(_, _)
FormattedEntries(overrides_formatted, i) ==
    IF i > Len(overrides_formatted) THEN <<>>
    ELSE [j \in 1..Len(overrides_formatted[i]) |->
            Entry("overrides_formatted", i, j, overrides_formatted[i][j])]
         \o FormattedEntries(overrides_formatted, i + 1)

PopulationEntries(populations) ==
    [i \in 1..Len(populations) |-> Entry("populations", i, 0, populations[i])]

\* a variant of ScanOrder with the populations first
ScanOrderPopulationsFirst(self) ==
    PopulationEntries(self.populations) \o FormattedEntries(self.overrides_formatted, 1)

\* the populations bucket_for goes through, in its order
ScanOrder(self) ==
    FormattedEntries(self.overrides_formatted, 1) \o PopulationEntries(self.populations)

RECURSIVE PopulationLoop(_, _, _, _, _, _, _)

\* a variant of PopulationLoopStep that ends the scan with -1 when the
\* filters of entry k passed and one of its rollouts has the position
PopulationLoopStepMatchEnds(pop_bucket, reg, h, entries, k, guild, hash_result, seen) ==
    IF pop_bucket.kind = "raise" THEN Raise(pop_bucket.error, reg, seen)
    ELSE IF pop_bucket.value # -1 THEN Return(pop_bucket.value, reg, seen)
    ELSE IF \E r \in 1..Len(entries[k].population.rollouts) :
                RolloutHas(entries[k].population.rollouts[r], hash_result)
    THEN Return(-1, reg, seen)
    ELSE PopulationLoop(reg, h, entries, k + 1, guild, hash_result, seen)

\* after entry k gave pop_bucket
PopulationLoopStep(pop_bucket, reg, h, entries, k, guild, hash_result, seen) ==
    IF pop_bucket.kind = "raise" THEN Raise(pop_bucket.error, reg, seen)
    ELSE IF pop_bucket.value # -1 THEN Return(pop_bucket.value, reg, seen)
    ELSE PopulationLoop(reg, h, entries, k + 1, guild, hash_result, seen)

\* the two population loops of bucket_for, from entry k on
PopulationLoop(reg, h, entries, k, guild, hash_result, evaluated) ==
    IF k > Len(entries) THEN Return(-1, reg, evaluated)
    ELSE PopulationLoopStep(
             ExperimentPopulation_bucket_for(reg, h, entries[k].population, guild,
                                             hash_result),
             reg, h, entries, k, guild, hash_result,
             Append(evaluated, <<h, entries[k].list, entries[k].i, entries[k].j>>))

\* a variant of OverrideLoop that looks for the guild's id only
RECURSIVE OverrideLoopIdOnly(_, _, _)
OverrideLoopIdOnly(overrides, i, guild) ==
    IF i > Len(overrides) THEN 0
    ELSE IF guild.id \in overrides[i].ids THEN i
    ELSE OverrideLoopIdOnly(overrides, i + 1, guild)

\* the override loop of bucket_for from override i on: the index of the
\* first override that lists the guild's id or its owner's, 0 when none does
RECURSIVE OverrideLoop(_, _, _)
OverrideLoop(overrides, i, guild) ==
    IF i > Len(overrides) THEN 0
    ELSE IF guild.id \in overrides[i].ids \/ guild.owner_id \in overrides[i].ids THEN i
    ELSE OverrideLoop(overrides, i + 1, guild)

\* a variant of Resolve that looks at the overrides before the position
Resolve_overrides_before_position(hash_result, override, reg, h, guild, evaluated) ==
    IF override # 0 THEN Return(reg[h].overrides[override].bucket, reg, evaluated)
    ELSE IF hash_result.kind = "raise" THEN Raise(hash_result.error, reg, evaluated)
    ELSE PopulationLoop(reg, h, ScanOrder(reg[h]), 1, guild, hash_result.value,
                        evaluated)

\* a variant of Resolve that gives no bucket when the name is unset
ResolveUnnamedAsNone(hash_result, override, reg, h, guild, evaluated) ==
    IF hash_result.kind = "raise" THEN Return(-1, reg, evaluated)
    ELSE IF override # 0 THEN Return(reg[h].overrides[override].bucket, reg, evaluated)
    ELSE PopulationLoop(reg, h, ScanOrder(reg[h]), 1, guild, hash_result.value,
                        evaluated)

\* bucket_for from the override loop on
Resolve(hash_result, override, reg, h, guild, evaluated) ==
    IF hash_result.kind = "raise" THEN Raise(hash_result.error, reg, evaluated)
    ELSE IF override # 0 THEN Return(reg[h].overrides[override].bucket, reg, evaluated)
    ELSE PopulationLoop(reg, h, ScanOrder(reg[h]), 1, guild, hash_result.value,
                        evaluated)

\* bucket_for after the holdout check, in the registry the check left
AfterHoldout(reg, h, guild, evaluated) ==
    Resolve(GuildExperiment_result_for(reg, h, guild),
            OverrideLoop(reg[h].overrides, 1, guild), reg, h, guild, evaluated)

RECURSIVE GuildExperiment_bucket_for(_, _, _, _)

\* is_eligible once the dependency's bucket_for has ended; value is 1 for
\* True and 0 for False
EligibleResult(bucket, required) ==
    IF bucket.kind = "raise" THEN bucket
    ELSE Return(IF bucket.value = required THEN 1 ELSE 0, bucket.reg, bucket.evaluated)

\* a variant of EligibleOf that refuses a guild when the dependency is missing
EligibleOfStrict(experiment, holdout, guild, depth) ==
    IF ~experiment.found THEN Return(0, experiment.reg, <<>>)
    ELSE EligibleResult(GuildExperiment_bucket_for(experiment.reg, experiment.hash,
                                                   guild, depth),
                        holdout.bucket)

\* is_eligible once HoldoutExperiment.experiment has been read
EligibleOf(experiment, holdout, guild, depth) ==
    IF ~experiment.found THEN Return(1, experiment.reg, <<>>)
    ELSE EligibleResult(GuildExperiment_bucket_for(experiment.reg, experiment.hash,
                                                   guild, depth),
                        holdout.bucket)

\* HoldoutExperiment.is_eligible(guild)
HoldoutExperiment_is_eligible(reg, holdout, guild, depth) ==
    EligibleOf(HoldoutExperiment_experiment(reg, holdout), holdout, guild, depth)

\* a variant of HoldoutChecked that goes on whatever the holdout check said
HoldoutCheckedIgnored(eligible, h, guild) ==
    IF eligible.kind = "raise" THEN eligible
    ELSE AfterHoldout(eligible.reg, h, guild, eligible.evaluated)

\* bucket_for once the holdout check has ended
HoldoutChecked(eligible, h, guild) ==
    IF eligible.kind = "raise" THEN eligible
    ELSE IF eligible.value = 0 THEN Return(-1, eligible.reg, eligible.evaluated)
    ELSE AfterHoldout(eligible.reg, h, guild, eligible.evaluated)

\* a variant of bucket_for that lets the overrides win over aa_mode
GuildExperiment_bucket_for_overrides_first(reg, h, guild, depth) ==
    IF depth = 0 THEN Raise("RecursionError", reg, <<>>)
    ELSE IF OverrideLoop(reg[h].overrides, 1, guild) # 0
    THEN Return(reg[h].overrides[OverrideLoop(reg[h].overrides, 1, guild)].bucket,
                reg, <<>>)
    ELSE IF reg[h].aa_mode THEN Return(-1, reg, <<>>)
    ELSE IF reg[h].holdout = <<>> THEN AfterHoldout(reg, h, guild, <<>>)
    ELSE HoldoutChecked(
             HoldoutExperiment_is_eligible(reg, reg[h].holdout[1], guild, depth - 1),
             h, guild)

\* GuildExperiment.bucket_for(guild) of the experiment stored under h, with
\* depth frames left
GuildExperiment_bucket_for(reg, h, guild, depth) ==
    IF depth = 0 THEN Raise("RecursionError", reg, <<>>)
    ELSE IF reg[h].aa_mode THEN Return(-1, reg, <<>>)
    ELSE IF reg[h].holdout = <<>> THEN AfterHoldout(reg, h, guild, <<>>)
    ELSE HoldoutChecked(
             HoldoutExperiment_is_eligible(reg, reg[h].holdout[1], guild, depth - 1),
             h, guild)

---------------------------------------------------------------------------
(* The configurations the registry is built from.                          *)

AllPositions == <<<<0, 9999>>>>

LowPositions == <<<<0, 2200>>>>

PopAll(bucket) == Population(<<>>, <<Rollout(bucket, AllPositions)>>)

PopLow(bucket) == Population(<<>>, <<Rollout(bucket, LowPositions)>>)

PopFeature(bucket) ==
    Population(<<FeatureFilter({"COMMUNITY"})>>, <<Rollout(bucket, AllPositions)>>)

PopUnknown(bucket) ==
    Population(<<UnknownFilter>>, <<Rollout(bucket, AllPositions)>>)

OverrideLists ==
    { <<>>,
      <<Override(7, {7})>>,
      <<Override(-1, {99}), Override(8, {42, 99})>> }

FormattedLists ==
    { <<>>,
      << <<PopLow(4)>> >>,
      << <<PopLow(4), PopAll(5)>>, <<PopAll(6)>> >> }

PopulationLists ==
    { <<>>,
      <<PopFeature(2), PopAll(3)>>,
      <<PopUnknown(5)>>,
      <<PopAll(-1), PopLow(9)>> }

\* GuildExperiment.__init__ on a payload
GuildExperiment(hash, hash_key, populations, overrides, overrides_formatted, holdout, aa_mode) ==
    [hash |-> hash, name |-> hash_key, revision |-> 1, populations |-> populations,
     overrides |-> overrides, overrides_formatted |-> overrides_formatted,
     holdout |-> holdout, aa_mode |-> aa_mode]

\* the experiments named "a" that the registry may hold
ExperimentsA ==
    { GuildExperiment(murmurhash32(NameA), name, populations, overrides, formatted,
                      holdout, aa_mode) :
        name \in {NoneStr, NameA},
        populations \in PopulationLists,
        overrides \in OverrideLists,
        formatted \in FormattedLists,
        holdout \in {<<>>, <<Holdout(NameB, 4)>>, <<Holdout(NameC, 4)>>},
        aa_mode \in BOOLEAN }

\* the experiments named "b" that the registry may hold
ExperimentsB ==
    { GuildExperiment(murmurhash32(NameB), name, <<PopLow(4)>>, <<>>, <<>>, holdout,
                      aa_mode) :
        name \in {NoneStr, NameB},
        holdout \in {<<>>, <<Holdout(NameA, 4)>>, <<Holdout(NameB, -1)>>},
        aa_mode \in BOOLEAN }

\* ConnectionState.guild_experiments: each experiment under its hash
Registry(list) == [h \in {e.hash : e \in list} |-> CHOOSE e \in list : e.hash = h]

---------------------------------------------------------------------------
(* The state machine of the registry.                                      *)

NoGuild == Guild(0, None, {}, None, NoneStr)

\* the last call: what was called on what, what it did, and the registry
\* it started from; assigned is the value a name assignment assigned, guilds
\* the ids of the guilds that guilds_for returned
Call(op, exp, index, guild, position, pre, done) ==
    [op |-> op, exp |-> exp, index |-> index, guild |-> guild, position |-> position,
     pre |-> pre, kind |-> done.kind, value |-> done.value, error |-> done.error,
     evaluated |-> done.evaluated, assigned |-> NoneStr, guilds |-> <<>>]

NoCall ==
    [op |-> "none", exp |-> <<0, 0>>, index |-> 0, guild |-> NoGuild, position |-> None,
     pre |-> <<>>, kind |-> "none", value |-> -2, error |-> "", evaluated |-> <<>>,
     assigned |-> NoneStr, guilds |-> <<>>]

Init ==
    /\ \E a \in ExperimentsA, b \in ExperimentsB : experiments = Registry({a, b})
    /\ outcome = NoCall

\* experiment.bucket_for(guild)
BucketFor(h, guild) ==
    \E done \in {GuildExperiment_bucket_for(experiments, h, guild, MaxDepth)} :
        /\ experiments' = done.reg
        /\ outcome' = Call("bucket_for", h, 0, guild, None, experiments, done)

\* experiment.holdout.is_eligible(guild)
IsEligible(h, guild) ==
    /\ experiments[h].holdout # <<>>
    /\ \E done \in {HoldoutExperiment_is_eligible(experiments, experiments[h].holdout[1],
                                                   guild, MaxDepth)} :
           /\ experiments' = done.reg
           /\ outcome' = Call("is_eligible", h, 0, guild, None, experiments, done)

CallBucketFor == \E h \in DOMAIN experiments, guild \in Guilds : BucketFor(h, guild)

CallIsEligible == \E h \in DOMAIN experiments, guild \in Guilds : IsEligible(h, guild)

Next ==
    \/ CallBucketFor
    \/ CallIsEligible

Spec == Init /\ [][Next]_vars

---------------------------------------------------------------------------
(* The state machine of one population: a named experiment whose first     *)
(* population is asked about any guild at any position, and which is asked *)
(* about the guild itself; its second population gives every guild bucket  *)
(* 3.                                                                      *)

PopFilters ==
    { FeatureFilter({"COMMUNITY", "VERIFIED"}),
      FeatureFilter({}),
      IdRangeFilter(None, 100),
      IdRangeFilter(60, 100),
      MemberCountRangeFilter(None, 100),
      MemberCountRangeFilter(60, 100),
      IdsFilter({50, 150}),
      HubTypeFilter,
      HashRangeFilter(KeyK, 2000),
      VanityUrlFilter(TRUE),
      UnknownFilter }

PopRollouts ==
    { <<>>,
      <<Rollout(3, <<<<0, 2999>>>>), Rollout(4, <<<<3000, 5000>>>>)>>,
      <<Rollout(3, <<<<0, 999>>, <<3000, 9999>>>>), Rollout(4, AllPositions)>> }

\* the _result passed to bucket_for; None lets it call result_for
PopPositions == {None, 2999, 3000, 5001}

FilterLists == UNION {[1..n -> PopFilters] : n \in 0..MaxFilters}

\* a call of populations[1].bucket_for(guild, position) that has not run yet
Pending(h, guild, position) ==
    [NoCall EXCEPT !.op = "population.bucket_for", !.exp = h, !.index = 1,
                   !.guild = guild, !.position = position, !.kind = "pending"]

PopInit ==
    /\ \E filters \in FilterLists, rollouts \in PopRollouts :
           experiments = Registry({GuildExperiment(murmurhash32(NameA), NameA,
                                                   <<Population(filters, rollouts),
                                                     PopAll(3)>>,
                                                   <<>>, <<>>, <<>>, FALSE)})
    /\ \E guild \in PopGuilds, position \in PopPositions :
           outcome = Pending(murmurhash32(NameA), guild, position)

\* experiment.populations[i].bucket_for(guild, position)
PopulationBucketFor(h, i, guild, position) ==
    \E done \in {ExperimentPopulation_bucket_for(experiments, h,
                                                 experiments[h].populations[i], guild,
                                                 position)} :
        /\ experiments' = done.reg
        /\ outcome' = Call("population.bucket_for", h, i, guild, position, experiments,
                           done)

CallPopulationBucketFor ==
    /\ outcome.kind = "pending"
    /\ PopulationBucketFor(outcome.exp, outcome.index, outcome.guild, outcome.position)

\* experiment.bucket_for(guild) for the guild of the pending call, which
\* computes the position itself
CallExperimentBucketFor ==
    /\ outcome.kind = "pending"
    /\ outcome.position = None
    /\ BucketFor(outcome.exp, outcome.guild)

PopNext ==
    \/ CallPopulationBucketFor
    \/ CallExperimentBucketFor

PopSpec == PopInit /\ [][PopNext]_vars

---------------------------------------------------------------------------
(* Name assignment, result_for and guilds_for of GuildExperiment, and the  *)
(* state machine of a registry whose names are assigned.                   *)

\* a variant of the name setter that takes any string
GuildExperiment_name_setter_unchecked(reg, h, value) ==
    IF ~Truthy(value) THEN Return(-2, [reg EXCEPT ![h].name = NoneStr], <<>>)
    ELSE Return(-2, [reg EXCEPT ![h].name = value], <<>>)

\* a variant of the name setter that unsets the name on a mismatch
GuildExperiment_name_setter_clearing(reg, h, value) ==
    IF ~Truthy(value) THEN Return(-2, [reg EXCEPT ![h].name = NoneStr], <<>>)
    ELSE IF murmurhash32(value) # reg[h].hash
    THEN Raise("ValueError", [reg EXCEPT ![h].name = NoneStr], <<>>)
    ELSE Return(-2, [reg EXCEPT ![h].name = value], <<>>)

\* a variant of the name setter that takes any string and stores its hash
GuildExperiment_name_setter_rehashing(reg, h, value) ==
    IF ~Truthy(value) THEN Return(-2, [reg EXCEPT ![h].name = NoneStr], <<>>)
    ELSE Return(-2, [reg EXCEPT ![h].name = value, ![h].hash = murmurhash32(value)], <<>>)

\* GuildExperiment.name = value; the setter returns nothing (value -2)
GuildExperiment_name_setter(reg, h, value) ==
    IF ~Truthy(value) THEN Return(-2, [reg EXCEPT ![h].name = NoneStr], <<>>)
    ELSE IF murmurhash32(value) # reg[h].hash THEN Raise("ValueError", reg, <<>>)
    ELSE Return(-2, [reg EXCEPT ![h].name = value], <<>>)

\* ConnectionState.guilds, in the order guilds_for goes through them
StateGuilds == <<CHOOSE g \in Guilds : g.id = 42, CHOOSE g \in Guilds : g.id = 99>>

\* what guilds_for gives: the ids of the guilds found, and the registry left
Found(kind, error, reg, evaluated, guilds) ==
    [kind |-> kind, value |-> -2, error |-> error, reg |-> reg, evaluated |-> evaluated,
     guilds |-> guilds]

RECURSIVE GuildsLoop(_, _, _, _, _, _)

\* a variant of the comprehension that leaves out a guild whose bucket_for
\* raises and goes on with the next one
GuildsLoopStepSkipping(done, h, bucket, i, guilds, evaluated) ==
    GuildsLoop(done.reg, h, bucket, i + 1,
               IF done.kind = "return" /\ done.value = bucket
               THEN Append(guilds, StateGuilds[i].id) ELSE guilds,
               evaluated \o done.evaluated)

\* after bucket_for of guild i gave done
GuildsLoopStep(done, h, bucket, i, guilds, evaluated) ==
    IF done.kind = "raise"
    THEN Found("raise", done.error, done.reg, evaluated \o done.evaluated, <<>>)
    ELSE GuildsLoop(done.reg, h, bucket, i + 1,
                    IF done.value = bucket THEN Append(guilds, StateGuilds[i].id)
                    ELSE guilds,
                    evaluated \o done.evaluated)

\* the comprehension of guilds_for from guild i on
GuildsLoop(reg, h, bucket, i, guilds, evaluated) ==
    IF i > Len(StateGuilds) THEN Found("return", "", reg, evaluated, guilds)
    ELSE GuildsLoopStep(GuildExperiment_bucket_for(reg, h, StateGuilds[i], MaxDepth),
                        h, bucket, i, guilds, evaluated)

\* GuildExperiment.guilds_for(bucket)
GuildExperiment_guilds_for(reg, h, bucket) == GuildsLoop(reg, h, bucket, 1, <<>>, <<>>)

\* the buckets guilds_for is asked about
AskedBuckets == {-1, 3}

\* the values assigned to name
NameValues == {NoneStr, <<>>, NameA, NameB}

\* the registries of the name state machine
NameInit ==
    /\ \E a \in {e \in ExperimentsA :
                    /\ e.overrides_formatted = <<>>
                    /\ e.populations \in {<<>>, <<PopFeature(2), PopAll(3)>>}
                    /\ e.overrides \in {<<>>, <<Override(7, {7})>>}},
          b \in ExperimentsB : experiments = Registry({a, b})
    /\ outcome = NoCall

\* experiment.name = value
SetName(h, value) ==
    \E done \in {GuildExperiment_name_setter(experiments, h, value)} :
        /\ experiments' = done.reg
        /\ outcome' = [Call("name", h, 0, NoGuild, None, experiments, done)
                           EXCEPT !.assigned = value]

\* experiment.result_for(guild)
ResultFor(h, guild) ==
    \E done \in {GuildExperiment_result_for(experiments, h, guild)} :
        /\ experiments' = done.reg
        /\ outcome' = Call("result_for", h, 0, guild, None, experiments, done)

\* experiment.guilds_for(bucket); the bucket is kept as the call's position
GuildsFor(h, bucket) ==
    \E done \in {GuildExperiment_guilds_for(experiments, h, bucket)} :
        /\ experiments' = done.reg
        /\ outcome' = [Call("guilds_for", h, 0, NoGuild, bucket, experiments, done)
                           EXCEPT !.guilds = done.guilds]

AssignName == \E h \in DOMAIN experiments, value \in NameValues : SetName(h, value)

CallResultFor == \E h \in DOMAIN experiments, guild \in Guilds : ResultFor(h, guild)

CallGuildsFor == \E h \in DOMAIN experiments, bucket \in AskedBuckets : GuildsFor(h, bucket)

NameNext ==
    \/ AssignName
    \/ CallResultFor
    \/ CallGuildsFor
    \/ CallBucketFor
    \/ CallIsEligible

NameSpec == NameInit /\ [][NameNext]_vars

---------------------------------------------------------------------------
(* The state machine of a registry built from any payloads: the name a     *)
(* payload carries is any of the names or none, whatever its hash is.      *)

\* the names a payload may carry
PayloadNames == {NoneStr, NameA, NameB}

\* the experiments built from the payloads whose hash is the hash of name
PayloadExperiments(name) ==
    { GuildExperiment(murmurhash32(name), hash_key, <<PopLow(4)>>, <<>>, <<>>, holdout,
                      aa_mode) :
        hash_key \in PayloadNames,
        holdout \in {<<>>, <<Holdout(NameA, 4)>>, <<Holdout(NameB, 4)>>},
        aa_mode \in BOOLEAN }

PayloadInit ==
    /\ \E a \in PayloadExperiments(NameA), b \in PayloadExperiments(NameB) :
           experiments = Registry({a, b})
    /\ outcome = NoCall

PayloadNext ==
    \/ AssignName
    \/ CallBucketFor

PayloadSpec == PayloadInit /\ [][PayloadNext]_vars

---------------------------------------------------------------------------
(* The state machine of a registry of three experiments whose holdouts may *)
(* form a chain: "a" may depend on "b", and "b" on "c" or back on "a".     *)

\* the experiments named name that the chain registry may hold, with one of
\* the holdouts
ChainExperiments(name, holdouts) ==
    { GuildExperiment(murmurhash32(name), hash_key, <<PopAll(4)>>, <<>>, <<>>, holdout,
                      aa_mode) :
        hash_key \in {NoneStr, name},
        holdout \in holdouts,
        aa_mode \in BOOLEAN }

ChainInit ==
    /\ \E a \in ChainExperiments(NameA, {<<>>, <<Holdout(NameB, 4)>>}),
          b \in ChainExperiments(NameB, {<<>>, <<Holdout(NameC, 4)>>, <<Holdout(NameA, 4)>>}),
          c \in ChainExperiments(NameC, {<<>>}) :
           experiments = Registry({a, b, c})
    /\ outcome = NoCall

ChainNext ==
    \/ CallBucketFor
    \/ CallIsEligible

ChainSpec == ChainInit /\ [][ChainNext]_vars

---------------------------------------------------------------------------
(* Two bucket_for calls that run at the same time on one registry.  A call *)
(* is cut at the read and at the write of the backfill in                  *)
(* HoldoutExperiment.experiment; in RaceSpec outcome holds one call record *)
(* per thread, whose kind is the place the thread is at.                   *)

Threads == {1, 2}

\* a call of bucket_for(guild) on the experiment under h that has not begun;
\* pre is the registry before either call
Thread(h, guild, reg) ==
    [NoCall EXCEPT !.op = "bucket_for", !.exp = h, !.guild = guild, !.pre = reg,
                   !.kind = "call"]

\* the experiment a thread called bucket_for on, as it is now
Called(t) == experiments[outcome[t].exp]

\* the call gets as far as looking up its holdout's dependency, and finds it
ReachesDependency(t) ==
    /\ ~Called(t).aa_mode
    /\ Called(t).holdout # <<>>
    /\ murmurhash32(Called(t).holdout[1].name) \in DOMAIN experiments

\* the key of that dependency
DependencyOf(t) == murmurhash32(Called(t).holdout[1].name)

\* where a thread is after it has read the dependency's name
AfterRead(name) == IF Truthy(name) THEN "rest" ELSE "write"

\* the thread's record once its call has ended
Ended(thread, done) ==
    [thread EXCEPT !.kind = done.kind, !.value = done.value, !.error = done.error,
                   !.evaluated = done.evaluated]

\* a variant of Visible in which a call goes on with the registry it began
\* with
VisibleAtCall(current, pre) == pre

\* the registry a call goes on with: the shared one, as it is now
Visible(current, pre) == current

\* the rest of the call: the dependency's bucket_for and what follows the
\* holdout check, or the whole of a call that has no dependency to look up
RestOf(reg, h, guild, depends) ==
    IF reg[h].aa_mode THEN Return(-1, reg, <<>>)
    ELSE IF ~depends THEN AfterHoldout(reg, h, guild, <<>>)
    ELSE HoldoutChecked(
             EligibleResult(
                 GuildExperiment_bucket_for(reg, murmurhash32(reg[h].holdout[1].name),
                                            guild, MaxDepth - 1),
                 reg[h].holdout[1].bucket),
             h, guild)

RaceInit ==
    /\ \E a \in {e \in ExperimentsA :
                    /\ e.overrides_formatted = <<>>
                    /\ e.populations \in {<<>>, <<PopFeature(2), PopAll(3)>>}
                    /\ e.overrides \in {<<>>, <<Override(7, {7})>>}},
          b \in {e \in ExperimentsB : e.holdout = <<>>} :
           experiments = Registry({a, b})
    /\ \E h1 \in DOMAIN experiments, h2 \in DOMAIN experiments, g1 \in Guilds, g2 \in Guilds :
           outcome = <<Thread(h1, g1, experiments), Thread(h2, g2, experiments)>>

\* "if experiment and not experiment.name": the thread reads the name of the
\* dependency; a call without a dependency to look up goes on
ReadName(t) ==
    /\ outcome[t].kind = "call"
    /\ outcome' = [outcome EXCEPT ![t].kind =
                       IF ReachesDependency(t)
                       THEN AfterRead(experiments[DependencyOf(t)].name)
                       ELSE "rest"]
    /\ UNCHANGED experiments

\* "experiment._name = self.name": the thread writes the name it found unset
WriteName(t) ==
    /\ outcome[t].kind = "write"
    /\ experiments' = [experiments EXCEPT
                          ![DependencyOf(t)].name = Called(t).holdout[1].name]
    /\ outcome' = [outcome EXCEPT ![t].kind = "rest",
                                  ![t].assigned = Called(t).holdout[1].name]

\* the thread finishes its call
Finish(t) ==
    /\ outcome[t].kind = "rest"
    /\ \E done \in {RestOf(Visible(experiments, outcome[t].pre), outcome[t].exp,
                           outcome[t].guild, ReachesDependency(t))} :
           /\ experiments' = done.reg
           /\ outcome' = [outcome EXCEPT ![t] = Ended(outcome[t], done)]

ThreadReads == \E t \in Threads : ReadName(t)

ThreadWrites == \E t \in Threads : WriteName(t)

ThreadFinishes == \E t \in Threads : Finish(t)

RaceNext ==
    \/ ThreadReads
    \/ ThreadWrites
    \/ ThreadFinishes

RaceSpec == RaceInit /\ [][RaceNext]_vars

---------------------------------------------------------------------------
(* The arithmetic of the hash_range filter on a digest, and the state      *)
(* machine that applies it to one digest and one target.                   *)

\* the hash_range filter once the digest is known: whether it passes
HashRangePasses(result, target) ==
    ModDigits(HashRangeTransform(result), 10000, 0) < target

\* the digests the arithmetic is applied to: <<high 16 bits, low 16 bits>>
Digests ==
    {<<hi, lo>> : hi \in {0, 1, 32767, 32768, 65535},
                  lo \in {0, 1, 2, 4999, 5000, 9999, 65535}}

\* the targets of the filter
Targets == {0, 1, 2000, 5000, 9999, 10000}

\* a hash_range test that has not run yet: exp holds the digest and position
\* the target
HashInit ==
    /\ experiments = <<>>
    /\ \E result \in Digests, target \in Targets :
           outcome = [NoCall EXCEPT !.op = "hash_range", !.exp = result,
                                    !.position = target, !.kind = "pending"]

\* the filter is applied; value is 1 when it passes and 0 when it fails
ApplyHashRange ==
    /\ outcome.op = "hash_range"
    /\ outcome.kind = "pending"
    /\ outcome' = [outcome EXCEPT
                      !.kind = "return",
                      !.value = IF HashRangePasses(outcome.exp, outcome.position)
                                THEN 1 ELSE 0]
    /\ UNCHANGED experiments

HashNext == ApplyHashRange

HashSpec == HashInit /\ [][HashNext]_vars

---------------------------------------------------------------------------
(* UserExperiment and the state machine of one user experiment.            *)

\* UserExperiment.__init__ on an assignment payload; self_id is the id of
\* the user of the connection state
UserExperiment(hash_key, revision, bucket, override, population, hash_result, aa_mode, self_id) ==
    [hash |-> hash_key, name |-> NoneStr, revision |-> revision, assignment |-> bucket,
     override |-> override, population |-> population, result |-> hash_result,
     aa_mode |-> (aa_mode = 1), self_id |-> self_id]

\* UserExperiment.bucket
UserExperiment_bucket(reg, h) ==
    IF reg[h].aa_mode THEN Return(-1, reg, <<>>)
    ELSE Return(IF reg[h].override # -1 THEN reg[h].override ELSE reg[h].population,
                reg, <<>>)

\* UserExperiment.result: "if self._result" is false for None and for 0
UserExperiment_result(reg, h) ==
    IF reg[h].result # None /\ reg[h].result # 0 THEN Return(reg[h].result, reg, <<>>)
    ELSE IF ~Truthy(reg[h].name) THEN Raise("ValueError", reg, <<>>)
    ELSE Return(ModDigits(murmurhash32(FormatKey(reg[h].name, reg[h].self_id)), 10000, 0),
                reg, <<>>)

\* UserExperiment.name = value; the setter returns nothing (value -2)
UserExperiment_name_setter(reg, h, value) ==
    IF ~Truthy(value) THEN Return(-2, [reg EXCEPT ![h].name = NoneStr], <<>>)
    ELSE IF murmurhash32(value) # reg[h].hash THEN Raise("ValueError", reg, <<>>)
    ELSE Return(-2, [reg EXCEPT ![h].name = value], <<>>)

\* the user experiments "a" that the connection state may hold
UserExperiments ==
    { UserExperiment(murmurhash32(NameA), 1, bucket, override, population, hash_result,
                     aa_mode, self_id) :
        bucket \in {-1, 3},
        override \in {-1, 2},
        population \in {0, 3},
        hash_result \in {None, 0, 1, 9999},
        aa_mode \in {0, 1},
        self_id \in {42, 99} }

UserInit ==
    /\ \E e \in UserExperiments : experiments = Registry({e})
    /\ outcome = NoCall

\* experiment.bucket
UserBucket(h) ==
    \E done \in {UserExperiment_bucket(experiments, h)} :
        /\ experiments' = done.reg
        /\ outcome' = Call("user.bucket", h, 0, NoGuild, None, experiments, done)

\* experiment.result
UserResult(h) ==
    \E done \in {UserExperiment_result(experiments, h)} :
        /\ experiments' = done.reg
        /\ outcome' = Call("user.result", h, 0, NoGuild, None, experiments, done)

\* experiment.name = value
UserSetName(h, value) ==
    \E done \in {UserExperiment_name_setter(experiments, h, value)} :
        /\ experiments' = done.reg
        /\ outcome' = [Call("user.name", h, 0, NoGuild, None, experiments, done)
                           EXCEPT !.assigned = value]

ReadUserBucket == \E h \in DOMAIN experiments : UserBucket(h)

ReadUserResult == \E h \in DOMAIN experiments : UserResult(h)

AssignUserName == \E h \in DOMAIN experiments, value \in NameValues : UserSetName(h, value)

UserNext ==
    \/ ReadUserBucket
    \/ ReadUserResult
    \/ AssignUserName

UserSpec == UserInit /\ [][UserNext]_vars

---------------------------------------------------------------------------
(* Properties of ExperimentPopulation.bucket_for, checked under PopSpec.   *)

\* the last call returned v
Returned(v) == outcome.kind = "return" /\ outcome.value = v

\* a call of ExperimentPopulation.bucket_for has ended
PopulationCalled ==
    outcome.op = "population.bucket_for" /\ outcome.kind \in {"return", "raise"}

\* the population that was asked, and the position it was asked about
AskedPopulation == outcome.pre[outcome.exp].populations[outcome.index]

AskedPosition ==
    IF outcome.position # None THEN outcome.position
    ELSE GuildExperiment_result_for(outcome.pre, outcome.exp, outcome.guild).value

\* position lies in a range of the rollout, both ends included
Covers(rollout, position) ==
    \E k \in 1..Len(rollout.ranges) :
        rollout.ranges[k][1] <= position /\ position <= rollout.ranges[k][2]

\* the bucket of the first rollout that covers the position, -1 when none does
FirstRolloutBucket(rollouts, position) ==
    IF \E r \in 1..Len(rollouts) : Covers(rollouts[r], position)
    THEN rollouts[CHOOSE r \in 1..Len(rollouts) :
                    /\ Covers(rollouts[r], position)
                    /\ \A q \in 1..(r - 1) : ~Covers(rollouts[q], position)].bucket
    ELSE -1

\* the last call gave what the rollouts of the asked population give
ReturnedRollout == Returned(FirstRolloutBucket(AskedPopulation.rollouts, AskedPosition))

\* C6: ExperimentPopulation.bucket_for returns -1 at the first filter that
\* fails, and when every filter passes the bucket of the first rollout with a
\* range start <= position <= end, -1 when no rollout has one.
C6_PopulationBucket ==
    PopulationCalled =>
        LET fs        == AskedPopulation.filters
            Passes(i) == FilterStep(fs[i], outcome.guild) = "continue"
            Fails(i)  == FilterStep(fs[i], outcome.guild) = "return"
        IN  /\ (\E i \in 1..Len(fs) : Fails(i) /\ \A j \in 1..(i - 1) : Passes(j))
                  => Returned(-1)
            /\ (\A i \in 1..Len(fs) : Passes(i)) => ReturnedRollout

\* two filters passed and the position is the inclusive end of the range
\* that gives the bucket
C6_Witness ==
    /\ PopulationCalled
    /\ Len(AskedPopulation.filters) = 2
    /\ \A i \in 1..2 : FilterStep(AskedPopulation.filters[i], outcome.guild) = "continue"
    /\ Len(AskedPopulation.rollouts) = 2
    /\ outcome.position = 2999
    /\ Returned(3)

\* C7: an id_range filter with a start passes exactly when
\* start <= guild.id <= end: a population whose first filter it is returns -1
\* for an id outside, and what its rollouts give when it is the only filter
\* and the id is inside.
C7_IdRangeWithStart ==
    (PopulationCalled /\ Len(AskedPopulation.filters) > 0) =>
        LET f      == AskedPopulation.filters[1]
            inside == f.start <= outcome.guild.id /\ outcome.guild.id <= f.end
        IN  (f.type = "id_range" /\ f.start # None) =>
                /\ ~inside => Returned(-1)
                /\ (inside /\ Len(AskedPopulation.filters) = 1) => ReturnedRollout

\* C8: an id_range filter without a start passes exactly when
\* guild.id <= end: a population whose first filter it is returns -1 for an
\* id above end, and what its rollouts give when it is the only filter and
\* the id is at most end.
C8_IdRangeWithoutStart ==
    (PopulationCalled /\ Len(AskedPopulation.filters) > 0) =>
        LET f      == AskedPopulation.filters[1]
            inside == outcome.guild.id <= f.end
        IN  (f.type = "id_range" /\ f.start = None) =>
                /\ ~inside => Returned(-1)
                /\ (inside /\ Len(AskedPopulation.filters) = 1) => ReturnedRollout

\* the guild of id 50 passed the filter with no start and end 100
C8_Witness ==
    /\ PopulationCalled
    /\ AskedPopulation.filters = <<IdRangeFilter(None, 100)>>
    /\ outcome.guild.id = 50
    /\ outcome.kind = "return"
    /\ outcome.value # -1

\* C9: for a guild of unknown member count a member_count_range filter is
\* skipped, whatever its start and end: the population gives what it gives
\* without its member_count_range filters.
C9_MemberCountUnknown ==
    (PopulationCalled /\ outcome.guild.member_count = None) =>
        LET Other(f) == f.type # "member_count_range"
            without  == [AskedPopulation EXCEPT
                            !.filters = SelectSeq(AskedPopulation.filters, Other)]
            expected == ExperimentPopulation_bucket_for(outcome.pre, outcome.exp, without,
                                                        outcome.guild, outcome.position)
        IN  /\ outcome.kind = expected.kind
            /\ outcome.value = expected.value
            /\ outcome.error = expected.error

\* a guild of unknown member count got a bucket from a population whose only
\* filter is member_count_range 60..100
C9_Witness ==
    /\ PopulationCalled
    /\ AskedPopulation.filters = <<MemberCountRangeFilter(60, 100)>>
    /\ outcome.guild.member_count = None
    /\ outcome.kind = "return"
    /\ outcome.value # -1

\* C10: for a guild of known member count a member_count_range filter passes
\* exactly when start <= member_count <= end, or member_count <= end when it
\* has no start.
C10_MemberCountKnown ==
    (PopulationCalled /\ Len(AskedPopulation.filters) > 0) =>
        LET f      == AskedPopulation.filters[1]
            count  == outcome.guild.member_count
            inside == IF f.start # None THEN f.start <= count /\ count <= f.end
                      ELSE count <= f.end
        IN  (f.type = "member_count_range" /\ count # None) =>
                /\ ~inside => Returned(-1)
                /\ (inside /\ Len(AskedPopulation.filters) = 1) => ReturnedRollout

---------------------------------------------------------------------------
(* Properties of GuildExperiment.bucket_for and of                         *)
(* HoldoutExperiment.is_eligible, checked under Spec.                      *)

\* a call of GuildExperiment.bucket_for has ended
BucketCalled == outcome.op = "bucket_for"

\* the experiment that was asked, as it was when the call began
Asked == outcome.pre[outcome.exp]

\* the overrides of the asked experiment that list the guild's id or its
\* owner's
Matching ==
    {i \in 1..Len(Asked.overrides) :
        \/ outcome.guild.id \in Asked.overrides[i].ids
        \/ outcome.guild.owner_id \in Asked.overrides[i].ids}

\* what the holdout check of the call gave
AskedHoldout ==
    HoldoutExperiment_is_eligible(outcome.pre, Asked.holdout[1], outcome.guild,
                                  MaxDepth - 1)

\* the asked experiment has no holdout, or one the guild is eligible for
HoldoutOpen == Asked.holdout = <<>> \/ (AskedHoldout.kind = "return" /\ AskedHoldout.value = 1)

\* the asked experiment has a holdout the guild is not eligible for
HoldoutShut ==
    Asked.holdout # <<>> /\ AskedHoldout.kind = "return" /\ AskedHoldout.value = 0

\* the places of the populations of the asked experiment that the call
\* evaluated, in the order of their evaluation
OwnEvaluated ==
    LET Own(t) == t[1] = outcome.exp
        own    == SelectSeq(outcome.evaluated, Own)
    IN  [k \in 1..Len(own) |-> <<own[k][2], own[k][3], own[k][4]>>]

\* C1: GuildExperiment.bucket_for returns -1 for every guild when aa_mode is
\* true, whatever the overrides, populations, holdout and name are.
C1_AAMode == (BucketCalled /\ Asked.aa_mode) => Returned(-1)

\* an unnamed experiment in A/A mode with a holdout and an override that
\* lists the guild returned -1
C1_Witness ==
    /\ BucketCalled
    /\ Asked.aa_mode
    /\ ~Truthy(Asked.name)
    /\ Asked.holdout # <<>>
    /\ \E i \in Matching : Asked.overrides[i].bucket # -1
    /\ Returned(-1)

\* C2: with aa_mode false, a name and a holdout that is absent or eligible,
\* a guild listed by an override (by its id or its owner's) gets the bucket
\* of the first such override, and no population of the experiment is
\* evaluated.
C2_OverrideFirst ==
    (BucketCalled /\ ~Asked.aa_mode /\ Truthy(Asked.name) /\ HoldoutOpen
                  /\ Matching # {}) =>
        /\ Returned(Asked.overrides[CHOOSE i \in Matching : \A j \in Matching : i <= j].bucket)
        /\ OwnEvaluated = <<>>

\* the first override that lists the guild has bucket -1, a later one lists
\* it too, and a population would have given a bucket
C2_Witness ==
    /\ BucketCalled /\ ~Asked.aa_mode /\ Truthy(Asked.name) /\ HoldoutOpen
    /\ Cardinality(Matching) = 2
    /\ Asked.overrides[1].bucket = -1
    /\ Asked.overrides[2].bucket # -1
    /\ Asked.populations = <<PopFeature(2), PopAll(3)>>
    /\ Returned(-1)

\* C3: with aa_mode false and a holdout the guild is not eligible for,
\* bucket_for returns -1 and evaluates no population of the experiment, also
\* when an override lists the guild.
C3_HoldoutFirst ==
    (BucketCalled /\ ~Asked.aa_mode /\ HoldoutShut) =>
        /\ Returned(-1)
        /\ OwnEvaluated = <<>>

\* a guild that an override gives bucket 7, and that a population would give
\* a bucket, is refused by the holdout
C3_Witness ==
    /\ BucketCalled /\ ~Asked.aa_mode /\ HoldoutShut
    /\ Truthy(Asked.name)
    /\ \E i \in Matching : Asked.overrides[i].bucket = 7
    /\ Asked.populations = <<PopFeature(2), PopAll(3)>>
    /\ Returned(-1)

\* a call of HoldoutExperiment.is_eligible has ended
EligibleCalled == outcome.op = "is_eligible"

\* the dependency of the asked holdout: whether the registry has it, and the
\* registry once its name is backfilled
Dependency == HoldoutExperiment_experiment(outcome.pre, Asked.holdout[1])

\* what bucket_for of the dependency gives for the guild
DependencyBucket ==
    GuildExperiment_bucket_for(Dependency.reg, Dependency.hash, outcome.guild, MaxDepth)

\* C4: HoldoutExperiment.is_eligible returns True, raising nothing, when the
\* registry has no experiment under the hash of the dependency's name, and
\* otherwise True exactly when bucket_for of the dependency gives the
\* holdout's bucket.
C4_IsEligible ==
    EligibleCalled =>
        /\ ~Dependency.found => Returned(1)
        /\ (Dependency.found /\ DependencyBucket.kind = "return") =>
               /\ outcome.kind = "return"
               /\ outcome.value = 1 <=> DependencyBucket.value = Asked.holdout[1].bucket
               /\ outcome.value \in {0, 1}

\* the registry has the dependency, which gives the guild the holdout's
\* bucket 4, and is_eligible returned True
C4_Witness ==
    /\ EligibleCalled
    /\ Dependency.found
    /\ DependencyBucket.kind = "return"
    /\ DependencyBucket.value = 4
    /\ Asked.holdout[1].bucket = 4
    /\ Returned(1)

\* the places of the override-populations and populations of the asked
\* experiment
Held ==
    UNION {{<<"overrides_formatted", i, j>> : j \in 1..Len(Asked.overrides_formatted[i])} :
              i \in 1..Len(Asked.overrides_formatted)}
    \cup {<<"populations", i, 0>> : i \in 1..Len(Asked.populations)}

\* place p comes before place q: the override-populations by outer then by
\* inner index, then the populations by index
Before(p, q) ==
    \/ p[1] = "overrides_formatted" /\ q[1] = "populations"
    \/ p[1] = q[1] /\ (p[2] < q[2] \/ (p[2] = q[2] /\ p[3] < q[3]))

\* what the population at place p gives the guild at the experiment's position
PlaceResult(p) ==
    ExperimentPopulation_bucket_for(
        outcome.pre, outcome.exp,
        IF p[1] = "populations" THEN Asked.populations[p[2]]
        ELSE Asked.overrides_formatted[p[2]][p[3]],
        outcome.guild,
        GuildExperiment_result_for(outcome.pre, outcome.exp, outcome.guild).value)

\* the population at place p gives -1
Sentinel(p) == PlaceResult(p).kind = "return" /\ PlaceResult(p).value = -1

\* C5: with aa_mode false, a name, a holdout that is absent or eligible and
\* no override listing the guild, bucket_for goes through overrides_formatted
\* (outer list, then inner list) and then populations, in order, up to the
\* first population that does not give -1, and returns what that one gives,
\* or -1 when every one gives -1.
C5_ScanOrder ==
    (BucketCalled /\ ~Asked.aa_mode /\ Truthy(Asked.name) /\ HoldoutOpen
                  /\ Matching = {}) =>
        /\ \A k \in 1..Len(OwnEvaluated) : \A l \in 1..Len(OwnEvaluated) :
               k < l => Before(OwnEvaluated[k], OwnEvaluated[l])
        /\ \A p \in Held :
               (\E k \in 1..Len(OwnEvaluated) : OwnEvaluated[k] = p)
                   <=> \A q \in Held : Before(q, p) => Sentinel(q)
        /\ \A p \in Held :
               (PlaceResult(p).kind = "return" /\ ~Sentinel(p)
                    /\ \A q \in Held : Before(q, p) => Sentinel(q))
                   => Returned(PlaceResult(p).value)
        /\ (\A p \in Held : Sentinel(p)) => Returned(-1)

\* the first override-population gave -1, the second gave bucket 5, and no
\* population was asked although one would have given a bucket
C5_Witness ==
    /\ BucketCalled /\ ~Asked.aa_mode /\ Truthy(Asked.name) /\ HoldoutOpen
    /\ Matching = {}
    /\ Asked.overrides_formatted = << <<PopLow(4), PopAll(5)>>, <<PopAll(6)>> >>
    /\ Asked.populations = <<PopFeature(2), PopAll(3)>>
    /\ OwnEvaluated = << <<"overrides_formatted", 1, 1>>, <<"overrides_formatted", 1, 2>> >>
    /\ Returned(5)

---------------------------------------------------------------------------
(* Properties of UserExperiment, checked under UserSpec.                   *)

\* C11: UserExperiment.bucket is -1 when aa_mode is true, else override when
\* override is not -1, else assignment.
C11_UserBucket ==
    outcome.op = "user.bucket" =>
        Returned(IF Asked.aa_mode THEN -1
                 ELSE IF Asked.override # -1 THEN Asked.override
                 ELSE Asked.assignment)

\* C12: UserExperiment.result returns the precomputed result when there is
\* one, 0 included, whether or not the name is set; without one it returns
\* the position computed from name and self_id, and raises ValueError
\* exactly when there is neither a precomputed result nor a name.
C12_UserResult ==
    outcome.op = "user.result" =>
        /\ Asked.result # None => Returned(Asked.result)
        /\ (Asked.result = None /\ Truthy(Asked.name)) =>
               Returned(ModDigits(murmurhash32(FormatKey(Asked.name, Asked.self_id)),
                                  10000, 0))
        /\ (outcome.kind = "raise") <=> (Asked.result = None /\ ~Truthy(Asked.name))

---------------------------------------------------------------------------
(* Properties of the name and of the hash of an experiment, checked under  *)
(* NameSpec.                                                               *)

\* a name assignment has ended
NameAssigned == outcome.op \in {"name", "user.name"}

\* the assigned value is a non-empty string with the hash of the experiment
AssignedMatches ==
    Truthy(outcome.assigned) /\ murmurhash32(outcome.assigned) = Asked.hash

\* C13: assigning to name a non-empty string whose hash is not the
\* experiment's raises ValueError and leaves the name (and the rest of the
\* state) as it was; assigning a string whose hash is the experiment's
\* succeeds and stores it, and assigning it again changes nothing.
C13_NameSetter ==
    (NameAssigned /\ Truthy(outcome.assigned)) =>
        /\ ~AssignedMatches =>
               /\ outcome.kind = "raise" /\ outcome.error = "ValueError"
               /\ experiments = outcome.pre
        /\ AssignedMatches =>
               /\ outcome.kind = "return"
               /\ experiments = [outcome.pre EXCEPT ![outcome.exp].name = outcome.assigned]
               /\ Asked.name = outcome.assigned => experiments = outcome.pre

\* the name "b" was refused by the experiment of hash("a"), which kept the
\* name "a"
C13_Witness ==
    /\ outcome.op = "name"
    /\ outcome.assigned = NameB
    /\ Asked.hash = murmurhash32(NameA)
    /\ Asked.name = NameA
    /\ outcome.kind = "raise"
    /\ experiments[outcome.exp].name = NameA

\* C14 as stated: once a valid name has been assigned, the next call,
\* whichever it is, leaves that name as it is.
C14_NameSetOnce ==
    [][(outcome.op = "name" /\ outcome.kind = "return" /\ Truthy(outcome.assigned))
           => experiments'[outcome.exp].name = experiments[outcome.exp].name]_vars

\* C14, amended: a set name is changed by a name assignment only: assigning
\* None or the empty string unsets it and assigning a string with the
\* experiment's hash stores that string; a refused assignment and every
\* resolution call, with its backfill, leave a set name as it is.
C14_NameChanges ==
    [][\A h \in DOMAIN experiments :
           (Truthy(experiments[h].name) /\ experiments'[h].name # experiments[h].name) =>
               /\ outcome'.op = "name" /\ outcome'.exp = h /\ outcome'.kind = "return"
               /\ \/ ~Truthy(outcome'.assigned) /\ experiments'[h].name = NoneStr
                  \/ /\ Truthy(outcome'.assigned)
                     /\ murmurhash32(outcome'.assigned) = experiments[h].hash
                     /\ experiments'[h].name = outcome'.assigned]_vars

\* the name "a" was unset by the assignment of the empty string
C14_Witness ==
    /\ outcome.op = "name"
    /\ Asked.name = NameA
    /\ outcome.assigned = <<>>
    /\ outcome.kind = "return"
    /\ experiments[outcome.exp].name = NoneStr

\* MurmurHash3 (x86, 32 bits, seed 0) of "<name>:<id>" modulo 10000 for the
\* names and guild ids of the registry, computed by a reference
\* implementation
ReferencePosition(name, id) ==
    CASE name = NameA /\ id = 42 -> 635
      [] name = NameA /\ id = 99 -> 3898
      [] name = NameB /\ id = 42 -> 2153
      [] name = NameB /\ id = 99 -> 2475

\* C15: result_for raises ValueError exactly when the name is unset, changing
\* nothing; with a name it returns murmurhash32("<name>:<id>") % 10000, which
\* lies in 0..9999 and depends on the name and the id only.
C15_ResultFor ==
    outcome.op = "result_for" =>
        /\ (outcome.kind = "raise") <=> ~Truthy(Asked.name)
        /\ outcome.kind = "raise" => (outcome.error = "ValueError" /\ experiments = outcome.pre)
        /\ outcome.kind = "return" =>
               /\ outcome.value \in 0..9999
               /\ outcome.value = ReferencePosition(Asked.name, outcome.guild.id)

\* the experiment "b" put the guild of id 99 at position 2475
C15_Witness ==
    /\ outcome.op = "result_for"
    /\ Asked.name = NameB
    /\ outcome.guild.id = 99
    /\ Returned(2475)

\* C16: no call changes the hash of an experiment, nor the keys of the
\* registry: not a name assignment, accepted or refused, nor result_for,
\* bucket_for, guilds_for or is_eligible with its backfill.
C16_HashFixed ==
    [][/\ DOMAIN experiments' = DOMAIN experiments
       /\ \A h \in DOMAIN experiments : experiments'[h].hash = experiments[h].hash]_vars

\* guilds_for backfilled the name of the experiment "b", whose hash is still
\* its key and the hash of "b"
C16_Witness ==
    /\ outcome.op = "guilds_for"
    /\ outcome.pre[murmurhash32(NameB)].name = NoneStr
    /\ experiments[murmurhash32(NameB)].name = NameB
    /\ experiments[murmurhash32(NameB)].hash = murmurhash32(NameB)
    /\ experiments[murmurhash32(NameB)].hash = outcome.pre[murmurhash32(NameB)].hash

\* the call that has just ended is a resolution call
Resolution == {"bucket_for", "result_for", "guilds_for", "is_eligible"}

\* C17: a resolution call (bucket_for, result_for, guilds_for, is_eligible)
\* leaves the keys of the registry and every experiment as they were, except
\* that an unnamed experiment that a holdout of the registry names may get
\* that holdout's name; its other fields stay.
C17_ResolutionFrame ==
    [][outcome'.op \in Resolution =>
           /\ DOMAIN experiments' = DOMAIN experiments
           /\ \A h \in DOMAIN experiments :
                  \/ experiments'[h] = experiments[h]
                  \/ /\ ~Truthy(experiments[h].name)
                     /\ \E d \in DOMAIN experiments :
                            /\ experiments[d].holdout # <<>>
                            /\ murmurhash32(experiments[d].holdout[1].name) = h
                            /\ experiments'[h] =
                                   [experiments[h] EXCEPT
                                       !.name = experiments[d].holdout[1].name]]_vars

\* bucket_for of the experiment "a" gave the unnamed experiment "b" its name
\* and changed nothing else
C17_Witness ==
    /\ outcome.op = "bucket_for"
    /\ outcome.exp = murmurhash32(NameA)
    /\ outcome.pre[murmurhash32(NameB)].name = NoneStr
    /\ experiments = [outcome.pre EXCEPT ![murmurhash32(NameB)].name = NameB]

\* two calls ended the same way
SameOutcome(a, b) == a.kind = b.kind /\ a.value = b.value /\ a.error = b.error

\* what the backfill may change: a call that raised ValueError for want of a
\* name; any other outcome stays
SameButNamed(a, b) == (a.kind = "raise" /\ a.error = "ValueError") \/ SameOutcome(a, b)

\* bucket_for and result_for in the registry a call started from, and in
\* the registry it left
BucketBefore(h, guild) == GuildExperiment_bucket_for(outcome.pre, h, guild, MaxDepth)

BucketAfter(h, guild) == GuildExperiment_bucket_for(experiments, h, guild, MaxDepth)

PositionBefore(h, guild) == GuildExperiment_result_for(outcome.pre, h, guild)

PositionAfter(h, guild) == GuildExperiment_result_for(experiments, h, guild)

\* C18 as stated: bucket_for and result_for of every experiment end the same
\* way for every guild before and after a resolution call.
C18_BackfillUnobservable ==
    outcome.op \in Resolution =>
        \A h \in DOMAIN experiments, guild \in Guilds :
            /\ SameOutcome(BucketBefore(h, guild), BucketAfter(h, guild))
            /\ SameOutcome(PositionBefore(h, guild), PositionAfter(h, guild))

\* C18, amended: a resolution call changes what bucket_for and result_for
\* give in one way only: a call that raised ValueError because the name was
\* unset may go on with the backfilled name; a call that returned a value or
\* raised another error ends the same way after it.
C18_BackfillNamesOnly ==
    outcome.op \in Resolution =>
        \A h \in DOMAIN experiments, guild \in Guilds :
            /\ SameButNamed(BucketBefore(h, guild), BucketAfter(h, guild))
            /\ SameButNamed(PositionBefore(h, guild), PositionAfter(h, guild))

\* bucket_for of the experiment "a" backfilled the name of "b", whose own
\* bucket_for raised ValueError before and gives bucket 4 after
C18_Witness ==
    /\ outcome.op = "bucket_for"
    /\ outcome.exp = murmurhash32(NameA)
    /\ outcome.pre[murmurhash32(NameB)].name = NoneStr
    /\ experiments[murmurhash32(NameB)].name = NameB
    /\ BucketBefore(murmurhash32(NameB), outcome.guild).error = "ValueError"
    /\ BucketAfter(murmurhash32(NameB), outcome.guild).kind = "return"
    /\ BucketAfter(murmurhash32(NameB), outcome.guild).value = 4

---------------------------------------------------------------------------
(* Property of two bucket_for calls that run at the same time, checked     *)
(* under RaceSpec.                                                         *)

\* both calls have ended
AllEnded == \A t \in Threads : outcome[t].kind \in {"return", "raise"}

\* the calls of thread t and then of thread u, one after the other, from
\* the registry both began with, end as the two threads did and leave the
\* registry as it is
AsInOrder(t, u) ==
    LET first  == GuildExperiment_bucket_for(outcome[t].pre, outcome[t].exp,
                                             outcome[t].guild, MaxDepth)
        second == GuildExperiment_bucket_for(first.reg, outcome[u].exp,
                                             outcome[u].guild, MaxDepth)
    IN  /\ SameOutcome(outcome[t], first)
        /\ SameOutcome(outcome[u], second)
        /\ experiments = second.reg

\* C19: however two bucket_for calls interleave at the read and the write
\* of the backfill, they end as they do when one runs after the other, and
\* leave the names that run leaves.
C19_BackfillRace == AllEnded => (AsInOrder(1, 2) \/ AsInOrder(2, 1))

\* both threads found the name of "b" unset and both wrote it; the call for
\* the guild of id 42 returned bucket 2 and the one for the guild of id 99,
\* which the holdout refuses, -1
C19_Witness ==
    /\ AllEnded
    /\ \A t \in Threads :
           /\ outcome[t].exp = murmurhash32(NameA)
           /\ outcome[t].assigned = NameB
           /\ outcome[t].kind = "return"
    /\ outcome[1].guild.id = 42 /\ outcome[1].value = 2
    /\ outcome[2].guild.id = 99 /\ outcome[2].value = -1
    /\ outcome[1].pre[murmurhash32(NameB)].name = NoneStr
    /\ experiments[murmurhash32(NameB)].name = NameB

---------------------------------------------------------------------------
(* Property of filters of an unknown type, checked under PopSpec.          *)

\* the types of filter that ExperimentPopulation.bucket_for knows
KnownTypes ==
    {"feature", "id_range", "member_count_range", "ids", "hub_type", "hash_range",
     "vanity_url"}

\* C20: when ExperimentPopulation.bucket_for reaches a filter of an unknown
\* type, every filter before it having passed, it raises
\* NotImplementedError; a population with such a filter never returns a
\* bucket other than -1.
C20_UnknownFilter ==
    PopulationCalled =>
        LET fs         == AskedPopulation.filters
            Unknown(i) == fs[i].type \notin KnownTypes
            Passes(i)  == FilterStep(fs[i], outcome.guild) = "continue"
        IN  /\ (\E i \in 1..Len(fs) : Unknown(i) /\ \A j \in 1..(i - 1) : Passes(j))
                   => (outcome.kind = "raise" /\ outcome.error = "NotImplementedError")
            /\ (\E i \in 1..Len(fs) : Unknown(i))
                   => ~(outcome.kind = "return" /\ outcome.value # -1)

\* a filter of an unknown type came after a filter that passed, for a
\* position that a rollout covers, and the call raised NotImplementedError
C20_Witness ==
    /\ PopulationCalled
    /\ Len(AskedPopulation.filters) = 2
    /\ AskedPopulation.filters[1].type = "hub_type"
    /\ AskedPopulation.filters[2].type \notin KnownTypes
    /\ \E r \in 1..Len(AskedPopulation.rollouts) :
           Covers(AskedPopulation.rollouts[r], AskedPosition)
    /\ outcome.kind = "raise"
    /\ outcome.error = "NotImplementedError"

---------------------------------------------------------------------------
(* Property of the hash_range arithmetic, checked under HashSpec.          *)

\* (2 * h) % 10000 for the digest h = hi * 65536 + lo, by the residues of
\* its halves (65536 % 10000 = 5536)
TwiceModulo(result) == (2 * ((result[1] * 5536 + result[2]) % 10000)) % 10000

\* C21: the hash_range filter doubles a positive digest with no modulus,
\* takes a digest of 0 modulo 2^32, and passes exactly when the outcome
\* modulo 10000 is below the target: for every digest h of 32 bits it passes
\* exactly when (2 * h) % 10000 < target.
C21_HashRange ==
    (outcome.op = "hash_range" /\ outcome.kind = "return") =>
        (outcome.value = 1) <=> (TwiceModulo(outcome.exp) < outcome.position)

\* the digest 2^32 - 1, whose double needs 33 bits, passes the target 5000:
\* (2 * (2^32 - 1)) % 10000 = 4590
C21_Witness ==
    /\ outcome.op = "hash_range"
    /\ outcome.exp = <<65535, 65535>>
    /\ outcome.position = 5000
    /\ Returned(1)

---------------------------------------------------------------------------
(* Claims about guilds_for, under NameSpec.                                *)

\* bucket_for of the i-th guild of the collection, asked on its own on the
\* registry as it was before guilds_for
Alone(i) == GuildExperiment_bucket_for(outcome.pre, outcome.exp, StateGuilds[i], MaxDepth)

\* the ids of the guilds from i on whose own bucket_for gives the bucket
RECURSIVE Selected(_, _)
Selected(i, bucket) ==
    IF i > Len(StateGuilds) THEN <<>>
    ELSE (IF Alone(i).kind = "return" /\ Alone(i).value = bucket
          THEN <<StateGuilds[i].id>> ELSE <<>>) \o Selected(i + 1, bucket)

\* C22: guilds_for(bucket) returns exactly the guilds of the collection whose
\* bucket_for equals the bucket, in the collection's order, each guild decided
\* as if bucket_for had been asked for it alone; when bucket_for raises for
\* any guild, guilds_for raises and gives no list.
C22_GuildsFor ==
    (outcome.op = "guilds_for") =>
        IF \E i \in 1..Len(StateGuilds) : Alone(i).kind = "raise"
        THEN outcome.kind = "raise" /\ outcome.guilds = <<>>
        ELSE outcome.kind = "return" /\ outcome.guilds = Selected(1, outcome.position)

\* guilds_for(3) on a named experiment: guild 42 has the feature and gets
\* bucket 2, guild 99 gets bucket 3 and is the only one returned
C22_Witness ==
    /\ outcome.op = "guilds_for" /\ outcome.kind = "return"
    /\ outcome.position = 3
    /\ Alone(1).kind = "return" /\ Alone(1).value = 2
    /\ outcome.guilds = <<99>>

---------------------------------------------------------------------------
(* Claims about a population without rollouts and about the feature        *)
(* filter, under PopSpec.                                                  *)

\* every filter of the list passes for the guild
AllPass(fs, guild) == \A i \in 1..Len(fs) : FilterStep(fs[i], guild) = "continue"

\* the first population of the experiment that bucket_for was asked on
FirstPopulation == outcome.pre[outcome.exp].populations[1]

\* C23: a population whose rollouts list is empty returns -1 for every guild
\* and every position when its filters pass, and never returns another
\* bucket; it never decides GuildExperiment.bucket_for: asked on an
\* experiment whose first population has no rollouts, bucket_for returns the
\* bucket of the population after it whenever it returns.
C23_EmptyRollouts ==
    /\ (PopulationCalled /\ AskedPopulation.rollouts = <<>>) =>
           /\ outcome.kind = "return" => outcome.value = -1
           /\ AllPass(AskedPopulation.filters, outcome.guild) => Returned(-1)
    /\ (outcome.op = "bucket_for" /\ FirstPopulation.rollouts = <<>>) =>
           /\ outcome.kind = "return" => outcome.value = 3
           /\ AllPass(FirstPopulation.filters, outcome.guild) => Returned(3)

\* every filter of a population without rollouts passed and the experiment
\* gave the bucket of the population after it
C23_Witness ==
    /\ outcome.op = "bucket_for"
    /\ FirstPopulation.rollouts = <<>>
    /\ Len(FirstPopulation.filters) = 2
    /\ AllPass(FirstPopulation.filters, outcome.guild)
    /\ Returned(3)

\* C24: a feature filter passes exactly when one or more of its required
\* features is among the guild's features: a population whose first filter it
\* is returns -1 for a guild with none of them, and what its rollouts give
\* when it is the only filter and the guild has one; with no required
\* feature at all it returns -1 for every guild.
C24_FeatureFilter ==
    (PopulationCalled /\ Len(AskedPopulation.filters) > 0) =>
        LET f      == AskedPopulation.filters[1]
            shared == f.features \cap outcome.guild.features
        IN  f.type = "feature" =>
                /\ shared = {} => Returned(-1)
                /\ (shared # {} /\ Len(AskedPopulation.filters) = 1) => ReturnedRollout
                /\ f.features = {} => Returned(-1)

\* a guild with one of the two required features passed the filter and got
\* a bucket
C24_Witness ==
    /\ PopulationCalled
    /\ AskedPopulation.filters = <<FeatureFilter({"COMMUNITY", "VERIFIED"})>>
    /\ outcome.guild.features = {"COMMUNITY"}
    /\ outcome.kind = "return"
    /\ outcome.value # -1

---------------------------------------------------------------------------
(* Claims about unnamed experiments, holdout chains and the sentinel       *)
(* bucket, under Spec.                                                     *)

\* the last call raised the error of an unset name
NameRequired == outcome.kind = "raise" /\ outcome.error = "ValueError"

\* C25: bucket_for on an experiment whose name is unset raises ValueError
\* exactly when aa_mode is false and the holdout is absent or the guild is
\* eligible for it; with aa_mode true, or with a holdout the guild is not
\* eligible for, it returns -1; it never returns another bucket, also when
\* an override lists the guild.
C25_UnnamedBucketFor ==
    (BucketCalled /\ ~Truthy(Asked.name)) =>
        /\ NameRequired <=> (~Asked.aa_mode /\ HoldoutOpen)
        /\ (Asked.aa_mode \/ HoldoutShut) => Returned(-1)
        /\ outcome.kind = "return" => outcome.value = -1

\* an unnamed experiment with an eligible holdout, an override that lists
\* the guild and a population that would give a bucket raised ValueError
C25_Witness ==
    /\ BucketCalled /\ ~Truthy(Asked.name) /\ ~Asked.aa_mode
    /\ Asked.holdout # <<>> /\ HoldoutOpen
    /\ Dependency.found
    /\ \E i \in Matching : Asked.overrides[i].bucket = 7
    /\ Asked.populations = <<PopFeature(2), PopAll(3)>>
    /\ NameRequired

\* the errors bucket_for is documented to raise: an unset name, and a filter
\* of an unknown type
DefinedErrors == {"ValueError", "NotImplementedError"}

\* C26: bucket_for ends for every guild and every registry, also one whose
\* holdouts form a cycle with no experiment of the cycle in A/A mode: it
\* returns a bucket or raises one of the defined errors.
C26_Terminates ==
    BucketCalled =>
        \/ outcome.kind = "return"
        \/ outcome.kind = "raise" /\ outcome.error \in DefinedErrors

---------------------------------------------------------------------------
(* Claim about the name and the hash of an experiment, under PayloadSpec.  *)

\* the name of the experiment stored under h is unset or hashes to its hash
NameMatchesHash(h) ==
    Truthy(experiments[h].name) => murmurhash32(experiments[h].name) = experiments[h].hash

\* C27: in every reachable state every GuildExperiment whose name is set has
\* murmurhash32(name) = hash: after its construction from a payload that
\* carries a name, after every name assignment, accepted or refused, and
\* after every backfill, in a registry that stores each experiment under its
\* own hash.
C27_NameMatchesHash == \A h \in DOMAIN experiments : NameMatchesHash(h)

---------------------------------------------------------------------------
(* Claim about unnamed dependencies, under ChainSpec.                      *)

\* the holdout of the asked experiment was resolved by the last call
HoldoutResolved ==
    /\ EligibleCalled \/ (BucketCalled /\ ~Asked.aa_mode)
    /\ Asked.holdout # <<>>

---------------------------------------------------------------------------
(* Claim about populations and overrides of bucket -1, under Spec.         *)

\* the position of the guild in the asked experiment
OwnPosition == GuildExperiment_result_for(outcome.pre, outcome.exp, outcome.guild).value

\* the filters of the population pass for the guild and the first of its
\* rollouts that has the guild's position has bucket -1
SentinelRollout(population) ==
    /\ AllPass(population.filters, outcome.guild)
    /\ \E r \in 1..Len(population.rollouts) : Covers(population.rollouts[r], OwnPosition)
    /\ FirstRolloutBucket(population.rollouts, OwnPosition) = -1

\* a population that matches no guild: its one filter lists no id
MatchesNone == Population(<<IdsFilter({})>>, <<>>)

\* the population, or the one that matches no guild in the place of a
\* population whose rollout gives the guild bucket -1
Blanked(population) == IF SentinelRollout(population) THEN MatchesNone ELSE population

\* the registry of the call with such populations of the asked experiment
\* replaced
BlankedRegistry ==
    [outcome.pre EXCEPT ![outcome.exp] =
        [Asked EXCEPT
            !.populations = [i \in 1..Len(Asked.populations) |-> Blanked(Asked.populations[i])],
            !.overrides_formatted =
                [i \in 1..Len(Asked.overrides_formatted) |->
                    [j \in 1..Len(Asked.overrides_formatted[i]) |->
                        Blanked(Asked.overrides_formatted[i][j])]]]]

\* what bucket_for gives on that registry
BlankedOutcome ==
    GuildExperiment_bucket_for(BlankedRegistry, outcome.exp, outcome.guild, MaxDepth)

\* the first override of the asked experiment that lists the guild
FirstMatching == CHOOSE i \in Matching : \A j \in Matching : i <= j

\* C29: in bucket_for a population or override-population whose filters pass
\* and whose first rollout with the guild's position has bucket -1 counts as
\* one that does not match: the call gives what it gives with a population
\* that matches no guild in its place, so the scan goes on and a later
\* population may give the bucket; an override of bucket -1 that lists the
\* guild ends the call with -1 and no population is asked.
C29_SentinelBucket ==
    (BucketCalled /\ Truthy(Asked.name)) =>
        /\ outcome.kind = BlankedOutcome.kind
        /\ outcome.value = BlankedOutcome.value
        /\ outcome.error = BlankedOutcome.error
        /\ (~Asked.aa_mode /\ HoldoutOpen /\ Matching # {}) =>
               (Asked.overrides[FirstMatching].bucket = -1 =>
                    (Returned(-1) /\ OwnEvaluated = <<>>))

\* the first population covers every position with bucket -1, the scan went
\* on and the second population gave bucket 9
C29_Witness ==
    /\ BucketCalled /\ Truthy(Asked.name) /\ ~Asked.aa_mode /\ HoldoutOpen
    /\ Matching = {}
    /\ Asked.populations = <<PopAll(-1), PopLow(9)>>
    /\ SentinelRollout(Asked.populations[1])
    /\ OwnEvaluated = << <<"populations", 1, 0>>, <<"populations", 2, 0>> >>
    /\ Returned(9)

---------------------------------------------------------------------------
(* Claim about the order of the filters, under PopSpec.                    *)

\* the orders of n filters that exchange two of them, for every length n;
\* every order of a list is reached by such exchanges
Orders ==
    [n \in 0..MaxFilters |->
        {[i \in 1..n |-> IF i = a THEN b ELSE IF i = b THEN a ELSE i] :
            a \in 1..n, b \in 1..n}]

\* what the asked population gives the guild with its filters in order p
Reordered(p) ==
    ExperimentPopulation_bucket_for(
        outcome.pre, outcome.exp,
        [AskedPopulation EXCEPT
            !.filters = [i \in 1..Len(AskedPopulation.filters) |->
                            AskedPopulation.filters[p[i]]]],
        outcome.guild, outcome.position)

\* the call gave -1, or raised NotImplementedError
GaveNoBucket(done) ==
    \/ done.kind = "return" /\ done.value = -1
    \/ done.kind = "raise" /\ done.error = "NotImplementedError"

\* the call gave what the last call gave, or both gave no bucket
SameUpToNoBucket(done) ==
    \/ done.kind = outcome.kind /\ done.value = outcome.value /\ done.error = outcome.error
    \/ GaveNoBucket(done) /\ GaveNoBucket(outcome)

\* C30: the filters of a population are evaluated in list order up to the
\* first that fails: when a known filter that fails comes before every filter
\* of an unknown type, bucket_for returns -1 and does not raise; when a filter
\* of an unknown type comes first it raises NotImplementedError; and with
\* two of its filters exchanged the call gives the same thing, or both
\* orders give no bucket, one returning -1 and the other raising, so that
\* no two orders of the same filters give different buckets.
C30_FilterOrder ==
    PopulationCalled =>
        LET fs         == AskedPopulation.filters
            Unknown(i) == fs[i].type \notin KnownTypes
            Fails(i)   == fs[i].type \in KnownTypes
                              /\ FilterStep(fs[i], outcome.guild) = "return"
        IN  /\ (\E i \in 1..Len(fs) : Fails(i) /\ \A j \in 1..(i - 1) : ~Unknown(j))
                   => Returned(-1)
            /\ (Len(fs) > 0 /\ Unknown(1))
                   => (outcome.kind = "raise" /\ outcome.error = "NotImplementedError")
            /\ \A p \in Orders[Len(fs)] :
                   \E done \in {Reordered(p)} : SameUpToNoBucket(done)

\* a filter that fails for the guild came before a filter of an unknown type
\* and the call returned -1, while the other order raises
C30_Witness ==
    /\ PopulationCalled
    /\ AskedPopulation.filters = <<IdsFilter({50, 150}), UnknownFilter>>
    /\ outcome.guild.id = 60
    /\ \E r \in 1..Len(AskedPopulation.rollouts) :
           Covers(AskedPopulation.rollouts[r], AskedPosition)
    /\ Returned(-1)
    /\ Reordered(<<2, 1>>).kind = "raise"

=============================================================================
